---- MODULE Spec2Model ----
(***************************************************************************)
(* Model of the Papero command-line client (cli/src/papero_cli.py): the    *)
(* login command, the single-job handler handle_post_job, the batch        *)
(* handler handle_post_template_jobs and the poll loop poll_for_pdf.       *)
(*                                                                         *)
(* One behaviour is one run of the CLI process with one command.  The      *)
(* coroutines run on one asyncio event loop, so every action is the code   *)
(* that runs between two suspension points (await of a network call or of  *)
(* asyncio.sleep).  The remote service is the environment: every response  *)
(* is drawn from a small set of response shapes.                           *)
(***************************************************************************)
EXTENDS Integers, Sequences, FiniteSets, TLC

\* ------------------------------------------------------------------ bounds
\* largest batch (number of template data entries in the JSON file)
MaxEntries == 2
\* cap on the number of status requests issued in one run, over all pollers
\* (the poll loop itself is unbounded)
MaxStatusRequests == 3

\* ------------------------------------------------- Python / JSON values
\* Every value is a record of the same shape so that values of different
\* Python types can be compared: t is the type, s the string payload and
\* m the members of a dict as a set of <<key, value>> pairs.
PyNone == [t |-> "None", s |-> "", m |-> {}]
Str(x) == [t |-> "str", s |-> x, m |-> {}]
List == [t |-> "list", s |-> "", m |-> {}]
Dict(members) == [t |-> "dict", s |-> "", m |-> members]
\* a response body that is not JSON text
Garbage == [t |-> "text", s |-> "<html>", m |-> {}]
Exc(name) == [t |-> "exc", s |-> name, m |-> {}]
IsExc(v) == v.t = "exc"

\* v[key] for a str key: a dict yields the member or KeyError; None, a
\* str, a list or a number is not subscriptable by a str: TypeError.
Subscript(v, key) ==
    IF v.t = "dict"
    THEN IF \E p \in v.m : p[1] = key
         THEN (CHOOSE p \in v.m : p[1] = key)[2]
         ELSE Exc("KeyError")
    ELSE Exc("TypeError")

\* v.get(key): dict.get yields the member or None; other types have no
\* method get: AttributeError.
DictGet(v, key) ==
    IF v.t = "dict"
    THEN IF \E p \in v.m : p[1] = key
         THEN (CHOOSE p \in v.m : p[1] = key)[2]
         ELSE PyNone
    ELSE Exc("AttributeError")

\* ------------------------------------------------------- HTTP responses
\* No response assigned yet (the local variable is unbound).
NoResp == [status_code |-> 0, body |-> PyNone]
\* httpx raises a transport error instead of returning a response.
TransportError == [status_code |-> -1, body |-> Exc("TransportError")]
Resp(code, body) == [status_code |-> code, body |-> body]

\* response.json(): a body that is not JSON raises json.JSONDecodeError,
\* a subclass of ValueError.
Json(resp) == IF resp.body.t = "text" THEN Exc("ValueError") ELSE resp.body

Urls == {"url1", "url2"}
\* the service creates a fresh job for every creation request
JobIdFor(entry) == Str(ToString(entry))

ReadyBody(u) == Dict({<<"document", Dict({<<"url", Str(u)>>})>>})
NullUrlBody == Dict({<<"document", Dict({<<"url", PyNone>>})>>})
\* bodies of a status response that carry no document URL
UnreadyBodies ==
    { Garbage,                                  \* not JSON
      List,                                     \* JSON, not an object
      Dict({}),                                 \* no "document"
      Dict({<<"document", Str("pending")>>}),   \* "document" not an object
      Dict({<<"document", Dict({})>>}) }        \* no "document.url"
StatusBodies == UnreadyBodies \cup {NullUrlBody} \cup {ReadyBody(u) : u \in Urls}
StatusResponses ==
    {Resp(200, b) : b \in StatusBodies}
      \cup {Resp(404, b) : b \in {Dict({}), ReadyBody("url1")}}
      \cup {TransportError}

\* bodies of a creation response: the job's id, not JSON, and an object
\* without "job_id".  The last is drawn for the first entry only: a poller
\* never reads the job_id of another one, so one entry without an id
\* covers the case.
CreateBodies(entry) ==
    {Dict({<<"job_id", JobIdFor(entry)>>}), Garbage}
      \cup (IF entry = 1 THEN {Dict({})} ELSE {})
CreateResponses(entry) ==
    {Resp(200, b) : b \in CreateBodies(entry)} \cup {TransportError}

LoginResponses ==
    {Resp(c, b) : c \in {200, 401},
                  b \in {Dict({<<"access_token", Str("tok")>>}), Dict({})}}
      \cup {TransportError}

\* ------------------------------------------------------------- commands
Commands == {"login", "add_job", "add_job_html", "add_job_template",
             "add_bulk_job_template"}
SingleCommands == {"add_job", "add_job_html"}
BatchCommands == {"add_job_template", "add_bulk_job_template"}

Entries == 1..MaxEntries

\* ------------------------------------------------------------------ text
\* A text is a sequence of pieces; the pieces of a template data entry are
\* single characters.  A data entry is an object with string members, in
\* the order of the JSON file: a sequence of <<key, value>> pairs of texts.

\* core/config.py: PAPERO_SERVER, default and an override from the environment
DefaultServer == <<"https://papero.io">>
Servers == {DefaultServer, <<"http://localhost:8000">>}

\* default of the parameter template_server of template_url
TemplateServer == <<"https://demo.papero.io/templates">>

Templates == {<<"invoice">>, <<"letter">>}
DataEntries ==
    { <<>>,
      << <<(<<"a">>), (<<"1">>)>> >>,
      << <<(<<"q">>), (<<"x", " ", "&", "y">>)>> >>,
      << <<(<<"a">>), (<<"1">>)>>, <<(<<"b">>), (<<"#">>)>> >> }
\* entry i of a bulk file: {"a": "<i>"}
DefaultEntry(i) == << <<(<<"a">>), (<<ToString(i)>>)>> >>

\* json.dumps of a str without characters that need escaping
DumpStr(text) == <<"\"">> \o text \o <<"\"">>

\* json.dumps of the members of an object: "key": value, joined by ", "
RECURSIVE DumpItems(_)
DumpItems(items) ==
    IF items = <<>> THEN <<>>
    ELSE DumpStr(Head(items)[1]) \o <<":", " ">> \o DumpStr(Head(items)[2])
           \o (IF Len(items) > 1 THEN <<",", " ">> \o DumpItems(Tail(items))
               ELSE <<>>)

\* json.dumps(data)
JsonDumps(entry) == <<"{">> \o DumpItems(entry) \o <<"}">>

\* template_url: f"{template_server}/{template}?data={json_data}"
template_url(tpl, entry) ==
    TemplateServer \o <<"/">> \o tpl \o <<"?data=">> \o JsonDumps(entry)

\* no creation request sent yet
NoPost == [url |-> <<>>, resource |-> <<>>, input_type |-> ""]

VARIABLES
    server,     \* settings.PAPERO_SERVER
    template,   \* argument template of the template commands
    data,       \* list of template data entries passed to the handler
    post_req,   \* last creation request sent: URL and JSON body
    cmd,        \* the command of this run
    N,          \* number of data entries passed to the handler
    cpc,        \* command layer: "start", "waiting", "exited"
    printed,    \* lines echoed, in order
    exit_code,  \* process exit status (-1 while running)
    token_req,  \* login: response of the login endpoint
    hpc,        \* handler coroutine: "init", "creating", "polling",
                \* "gather", "returned", "raised"
    client,     \* httpx.AsyncClient: "unopened", "open", "closed"
    idx,        \* entry whose creation request is in flight
    posted,     \* creation requests sent, in order
    job_req,    \* per entry: creation response received
    tasks,      \* progress tasks added (set of entries)
    jobs,       \* list of poller coroutines handed to gather
    pdfs,       \* value returned by handle_post_template_jobs
    pdf,        \* value returned by handle_post_job
    pc,         \* per poller: "none", "scheduled", "wait", "sleep",
                \* "done", "failed"
    job_id,     \* per poller: argument job_id
    nGets,      \* per poller: status requests issued
    inflight,   \* per poller: status requests sent and not yet answered
    polled,     \* per poller: job ids named in its status requests
    doc_req,    \* per poller: last status response
    pdf_link,   \* per poller: local pdf_link
    completed,  \* per poller: progress.update(task, completed=100) calls
    got,        \* per poller: outcome of its last awaited get (a response
                \* or TransportError)
    finished    \* pollers that returned, in the order they returned

inputVars == <<server, template, data>>
cmdVars == <<cmd, N, cpc, printed, exit_code, token_req, server, template, data>>
handlerVars == <<hpc, client, idx, posted, job_req, tasks, jobs, pdfs, pdf,
                 post_req>>
pollVars == <<pc, job_id, nGets, inflight, polled, doc_req, pdf_link,
              completed, got, finished>>
vars == <<server, template, data, post_req, cmd, N, cpc, printed, exit_code, token_req, hpc, client, idx, posted,
          job_req, tasks, jobs, pdfs, pdf, pc, job_id, nGets, inflight, polled,
          doc_req, pdf_link, completed, got, finished>>

Line(kind, v) == [k |-> kind, v |-> v]

\* api_url(suffix): f"{settings.PAPERO_SERVER}/api/v1/{suffix}"
api_url(suffix) == server \o <<"/api/v1/">> \o suffix

\* post_job: client.post(api_url("jobs/"), json={"resource": ..., "input_type": ...})
post_job(resource, input_type) ==
    [url |-> api_url(<<"jobs/">>), resource |-> resource, input_type |-> input_type]

\* post_template_job: post_job(client, await template_url(template, data), "url")
post_template_job(tpl, entry) == post_job(template_url(tpl, entry), "url")

\* the creation request of entry i: add_job posts its URL argument,
\* add_job_html the text of its file, the template handlers a template job
CreationRequest(i) ==
    IF cmd = "add_job" THEN post_job(<<"https://example.org/page">>, "url")
    ELSE IF cmd = "add_job_html" THEN post_job(<<"<p>hello</p>">>, "html")
    ELSE post_template_job(template, data[i])

\* The inputs vary for add_job_template; the other commands run with the
\* default server, one template and the entries {"a": "1"}, {"a": "2"}, ...
Init ==
    /\ cmd \in Commands
    /\ N \in 0..MaxEntries
    /\ cmd = "login" => N = 0
    /\ cmd \in SingleCommands \cup {"add_job_template"} => N = 1
    /\ server \in Servers
    /\ template \in Templates
    /\ data \in [1..N -> DataEntries \cup {DefaultEntry(i) : i \in Entries}]
    /\ cmd # "add_job_template" =>
          /\ server = DefaultServer
          /\ template = <<"invoice">>
          /\ data = [i \in 1..N |-> DefaultEntry(i)]
    /\ cmd = "add_job_template" => data[1] \in DataEntries
    /\ post_req = NoPost
    /\ cpc = "start"
    /\ printed = <<>>
    /\ exit_code = -1
    /\ token_req = NoResp
    /\ hpc = "init"
    /\ client = "unopened"
    /\ idx = 0
    /\ posted = <<>>
    /\ job_req = [i \in Entries |-> NoResp]
    /\ tasks = {}
    /\ jobs = <<>>
    /\ pdfs = <<>>
    /\ pdf = PyNone
    /\ pc = [i \in Entries |-> "none"]
    /\ job_id = [i \in Entries |-> PyNone]
    /\ nGets = [i \in Entries |-> 0]
    /\ inflight = [i \in Entries |-> 0]
    /\ polled = [i \in Entries |-> {}]
    /\ doc_req = [i \in Entries |-> NoResp]
    /\ pdf_link = [i \in Entries |-> PyNone]
    /\ completed = [i \in Entries |-> 0]
    /\ got = [i \in Entries |-> NoResp]
    /\ finished = <<>>


\* -------------------------------------------------------- command layer
\* login, lines 115-118: echo, then the blocking httpx.post.
LoginStart ==
    /\ cmd = "login"
    /\ cpc = "start"
    /\ printed' = Append(printed, Line("info", Str("Attempting login")))
    /\ cpc' = "waiting"
    /\ UNCHANGED <<cmd, N, exit_code, token_req>>
    /\ UNCHANGED inputVars
    /\ UNCHANGED handlerVars
    /\ UNCHANGED pollVars

\* variant: only server errors are rejected
LoginRejectedOnServerError(resp) == resp.status_code >= 500

\* if token_req.status_code != 200
LoginRejected(resp) == resp.status_code # 200

\* login, lines 116-123: the response of the login endpoint arrives.
\* An uncaught exception ends the Python process with status 1.
LoginRecv(resp) ==
    /\ cmd = "login"
    /\ cpc = "waiting"
    /\ cpc' = "exited"
    /\ token_req' = IF resp = TransportError THEN token_req ELSE resp
    /\ IF resp = TransportError
       THEN /\ exit_code' = 1
            /\ UNCHANGED printed
       ELSE IF LoginRejected(resp)
       THEN /\ printed' = Append(printed, Line("info", Str("Invalid password")))
            /\ exit_code' = 1
       ELSE LET token == DictGet(Json(resp), "access_token") IN
            IF IsExc(token)
            THEN /\ printed' = Append(printed, Line("info", Str("Login succesful")))
                 /\ exit_code' = 1
            ELSE /\ printed' = printed \o <<Line("info", Str("Login succesful")),
                                            Line("token", token)>>
                 /\ exit_code' = 0
    /\ UNCHANGED <<cmd, N>>
    /\ UNCHANGED inputVars
    /\ UNCHANGED handlerVars
    /\ UNCHANGED pollVars

\* add_job / add_job_html / add_job_template / add_bulk_job_template up to
\* the call of the @unsync handler; the command then blocks in .result().
CmdInvoke ==
    /\ cmd # "login"
    /\ cpc = "start"
    /\ printed' = Append(printed, Line("info", Str("Creating")))
    /\ cpc' = "waiting"
    /\ UNCHANGED <<cmd, N, exit_code, token_req>>
    /\ UNCHANGED inputVars
    /\ UNCHANGED handlerVars
    /\ UNCHANGED pollVars

\* the lines echoed for the value .result() returns
ResultLines ==
    IF cmd \in SingleCommands THEN <<Line("pdf", pdf)>>
    ELSE IF cmd = "add_job_template" THEN <<Line("pdf", pdfs[1])>>
    ELSE [k \in 1..Len(pdfs) |-> Line("pdf", pdfs[k])]

\* .result() returns the handler's value and the command echoes it.
CmdPrint ==
    /\ cpc = "waiting"
    /\ hpc = "returned"
    /\ printed' = printed \o ResultLines
    /\ exit_code' = 0
    /\ cpc' = "exited"
    /\ UNCHANGED <<cmd, N, token_req>>
    /\ UNCHANGED inputVars
    /\ UNCHANGED handlerVars
    /\ UNCHANGED pollVars

\* .result() re-raises the handler's exception: nothing is echoed and the
\* process ends with a traceback (status 1); the event-loop thread is a
\* daemon thread and ends with it.
CmdCrash ==
    /\ cpc = "waiting"
    /\ hpc = "raised"
    /\ exit_code' = 1
    /\ cpc' = "exited"
    /\ UNCHANGED <<cmd, N, printed, token_req>>
    /\ UNCHANGED inputVars
    /\ UNCHANGED handlerVars
    /\ UNCHANGED pollVars

\* ------------------------------------------------------------- handlers
\* the event loop runs coroutines while the process lives
Running == cmd # "login" /\ cpc = "waiting"

\* handle_post_job / handle_post_template_jobs from entry to the first
\* suspension: open the client, start Progress, add the first task and
\* send the first creation request.  With no entries the batch handler
\* gathers nothing: gather() yields [] and the handler returns it.
HandlerStart ==
    /\ Running
    /\ hpc = "init"
    /\ IF N = 0
       THEN /\ client' = "closed"
            /\ hpc' = "returned"
            /\ pdfs' = <<>>
            /\ UNCHANGED <<idx, posted, tasks, post_req>>
       ELSE /\ client' = "open"
            /\ hpc' = "creating"
            /\ idx' = 1
            /\ tasks' = {1}
            /\ posted' = <<1>>
            /\ post_req' = CreationRequest(1)
            /\ UNCHANGED pdfs
    /\ UNCHANGED <<job_req, jobs, pdf>>
    /\ UNCHANGED cmdVars
    /\ UNCHANGED pollVars

\* variant: the id is read from another member of the response
JobIdOfWrongKey(resp) ==
    LET j == Json(resp) IN IF IsExc(j) THEN j ELSE DictGet(j, "id")

\* job_id = job_req.json().get("job_id")
JobIdOf(resp) ==
    LET j == Json(resp) IN IF IsExc(j) THEN j ELSE DictGet(j, "job_id")

\* jobs.append(poll_for_pdf(client, job_id, task, progress))
AppendJob(js, coro) == Append(js, coro)

\* variant: the poller is started at once, asyncio.create_task(poll_for_pdf(...))
CoroutineStartedAsTask == "scheduled"

\* poll_for_pdf(...) called without await yields a coroutine object that
\* runs nothing until it is awaited or gathered
CoroutineCreated == "created"

\* a creation response arrives: lines 65-68 and 86-89.
CreateRecv(resp) ==
    /\ Running
    /\ hpc = "creating"
    /\ IF resp = TransportError \/ IsExc(JobIdOf(resp))
       THEN /\ hpc' = "raised"
            /\ client' = "closed"
            /\ job_req' = IF resp = TransportError THEN job_req
                          ELSE [job_req EXCEPT ![idx] = resp]
            /\ UNCHANGED <<idx, posted, tasks, jobs, post_req>>
            /\ UNCHANGED <<pc, job_id>>
       ELSE /\ job_req' = [job_req EXCEPT ![idx] = resp]
            /\ job_id' = [job_id EXCEPT ![idx] = JobIdOf(resp)]
            /\ jobs' = IF cmd \in SingleCommands THEN jobs ELSE AppendJob(jobs, idx)
            /\ UNCHANGED client
            /\ IF idx < N
               THEN /\ idx' = idx + 1
                    /\ tasks' = tasks \cup {idx + 1}
                    /\ posted' = Append(posted, idx + 1)
                    /\ post_req' = CreationRequest(idx + 1)
                    /\ pc' = [pc EXCEPT ![idx] = CoroutineCreated]
                    /\ UNCHANGED hpc
               ELSE /\ hpc' = IF cmd \in SingleCommands THEN "polling" ELSE "gather"
                    /\ pc' = [i \in Entries |->
                                IF i = idx \/ pc[i] = "created"
                                THEN "scheduled" ELSE pc[i]]
                    /\ UNCHANGED <<idx, tasks, posted, post_req>>
    /\ UNCHANGED <<pdfs, pdf>>
    /\ UNCHANGED cmdVars
    /\ UNCHANGED <<nGets, inflight, polled, doc_req, pdf_link, completed, got,
                   finished>>


\* ---------------------------------------------------------- poll_for_pdf
RECURSIVE SumTo(_, _)
SumTo(f, n) == IF n = 0 THEN 0 ELSE f[n] + SumTo(f, n - 1)
TotalGets == SumTo(nGets, MaxEntries)
CanIssue == TotalGets < MaxStatusRequests

\* A request on a client that has been closed either raises at once or is
\* still sent, depending on the httpx release.
SendOutcomes == IF client = "open" THEN {TRUE} ELSE BOOLEAN

\* requests of poller i still unanswered once it runs: a poller resumed
\* from its awaited get has had that request answered
Outstanding(i) == IF pc[i] = "wait" THEN inflight[i] - 1 ELSE inflight[i]

\* variant: the get is started but not awaited, the loop goes on to sleep
IssueGetNotAwaited(i, sent) ==
    /\ CanIssue
    /\ pc' = [pc EXCEPT ![i] = IF sent THEN "sleep" ELSE "failed"]
    /\ nGets' = [nGets EXCEPT ![i] = IF sent THEN @ + 1 ELSE @]
    /\ inflight' = [inflight EXCEPT ![i] = Outstanding(i) + (IF sent THEN 1 ELSE 0)]
    /\ polled' = [polled EXCEPT ![i] = IF sent THEN @ \cup {job_id[i]} ELSE @]

\* doc_req = await client.get(api_url(f"jobs/{job_id}")), up to the
\* suspension: the request names the poller's job_id.
IssueGet(i, sent) ==
    /\ CanIssue
    /\ pc' = [pc EXCEPT ![i] = IF sent THEN "wait" ELSE "failed"]
    /\ nGets' = [nGets EXCEPT ![i] = IF sent THEN @ + 1 ELSE @]
    /\ inflight' = [inflight EXCEPT ![i] = Outstanding(i) + (IF sent THEN 1 ELSE 0)]
    /\ polled' = [polled EXCEPT ![i] = IF sent THEN @ \cup {job_id[i]} ELSE @]

\* variant: the status code is not tested
StatusOkAlways(resp) == TRUE

\* if doc_req.status_code == 200
StatusOk(resp) == resp.status_code = 200

\* doc_req.json()["document"]["url"]: the value, or the exception raised
DocumentUrl(resp) ==
    LET j == Json(resp) IN
    IF IsExc(j) THEN j
    ELSE LET d == Subscript(j, "document") IN
         IF IsExc(d) THEN d ELSE Subscript(d, "url")

\* except (KeyError, TypeError)
Caught(e) == e.s \in {"KeyError", "TypeError"}

\* while pdf_link is None
LoopAgain(link) == link = PyNone

\* variant: the get is inside the try block and every error is retried
HandleRetryOnError(resp) ==
    IF resp = TransportError THEN "sleep"
    ELSE IF ~StatusOk(resp) THEN "skip"
    ELSE IF ~IsExc(DocumentUrl(resp)) THEN "assign"
    ELSE IF Caught(DocumentUrl(resp)) THEN "sleep"
    ELSE "raise"

\* what the loop body does with the outcome of the awaited get:
\* "raise" (exception leaves the poller), "sleep" (caught, asyncio.sleep),
\* "skip" (status not 200, body not read), "assign" (pdf_link assigned and
\* progress updated)
Handle(resp) ==
    IF resp = TransportError THEN "raise"
    ELSE IF ~StatusOk(resp) THEN "skip"
    ELSE IF ~IsExc(DocumentUrl(resp)) THEN "assign"
    ELSE IF Caught(DocumentUrl(resp)) THEN "sleep"
    ELSE "raise"

\* The tasks made by gather (or the poller awaited by handle_post_job) are
\* queued on the event loop before any response or timer can be handled
\* and before the handler can be woken: each runs its first step first.
AllStarted == \A i \in Entries : pc[i] # "scheduled"

\* variant: the get and the sleep block the loop thread, so a task runs only
\* while no other task is inside one of them
ResumableWhenOthersIdle(i) ==
    /\ Running
    /\ AllStarted
    /\ \A k \in Entries \ {i} : pc[k] \notin {"wait", "sleep"}

\* await client.get(...) and await asyncio.sleep(0.3) suspend the task that
\* awaits only: the loop resumes task i as soon as its own get or sleep is
\* over, whatever the other tasks are waiting for.
Resumable(i) == Running /\ AllStarted

\* first step of the poller: pdf_link = None, loop test, first get
PollStart(i, sent) ==
    /\ Running
    /\ pc[i] = "scheduled"
    /\ IssueGet(i, sent)
    /\ UNCHANGED <<job_id, doc_req, pdf_link, completed, got, finished>>
    /\ UNCHANGED cmdVars
    /\ UNCHANGED handlerVars

\* the awaited get completes: lines 42-50 up to the next suspension
PollRecv(i, resp, sent) ==
    /\ Resumable(i)
    /\ pc[i] = "wait"
    /\ got' = [got EXCEPT ![i] = resp]
    /\ doc_req' = IF resp = TransportError THEN doc_req
                  ELSE [doc_req EXCEPT ![i] = resp]
    /\ CASE Handle(resp) = "raise" ->
              /\ pc' = [pc EXCEPT ![i] = "failed"]
              /\ inflight' = [inflight EXCEPT ![i] = Outstanding(i)]
              /\ UNCHANGED <<nGets, polled, pdf_link, completed, finished>>
         [] Handle(resp) = "sleep" ->
              /\ pc' = [pc EXCEPT ![i] = "sleep"]
              /\ inflight' = [inflight EXCEPT ![i] = Outstanding(i)]
              /\ UNCHANGED <<nGets, polled, pdf_link, completed, finished>>
         [] Handle(resp) = "skip" ->
              /\ IssueGet(i, sent)
              /\ UNCHANGED <<pdf_link, completed, finished>>
         [] Handle(resp) = "assign" ->
              /\ pdf_link' = [pdf_link EXCEPT ![i] = DocumentUrl(resp)]
              /\ completed' = [completed EXCEPT ![i] = @ + 1]
              /\ IF LoopAgain(DocumentUrl(resp))
                 THEN /\ IssueGet(i, sent)
                      /\ UNCHANGED finished
                 ELSE /\ pc' = [pc EXCEPT ![i] = "done"]
                      /\ inflight' = [inflight EXCEPT ![i] = Outstanding(i)]
                      /\ finished' = Append(finished, i)
                      /\ UNCHANGED <<nGets, polled>>
    /\ UNCHANGED job_id
    /\ UNCHANGED cmdVars
    /\ UNCHANGED handlerVars

\* asyncio.sleep(0.3) is over: continue, loop test, next get
PollWake(i, sent) ==
    /\ Resumable(i)
    /\ pc[i] = "sleep"
    /\ IssueGet(i, sent)
    /\ UNCHANGED <<job_id, doc_req, pdf_link, completed, got, finished>>
    /\ UNCHANGED cmdVars
    /\ UNCHANGED handlerVars

\* ------------------------------------------- awaiting the pollers' results
\* asyncio.gather(*jobs): the first exception of a child is raised in the
\* awaiting coroutine; otherwise, once all children are done, the list of
\* their results in the order of the arguments.
\* variant: gather(..., return_exceptions=True)
GatherStateReturnExceptions(children) ==
    IF \A k \in 1..Len(children) : pc[children[k]] \in {"done", "failed"}
    THEN "result"
    ELSE "pending"

GatherState(children) ==
    IF \E k \in 1..Len(children) : pc[children[k]] = "failed" THEN "exception"
    ELSE IF \A k \in 1..Len(children) : pc[children[k]] = "done" THEN "result"
    ELSE "pending"
\* variant: results in the order the pollers returned
GatherResultAsCompleted(children) ==
    [k \in 1..Len(children) |-> pdf_link[finished[k]]]

GatherResult(children) == [k \in 1..Len(children) |-> pdf_link[children[k]]]

\* the awaited pollers are done: leave both with-blocks (the client is
\* closed) and return.
HandlerReturn ==
    /\ Running
    /\ AllStarted
    /\ \/ /\ hpc = "gather"
          /\ GatherState(jobs) = "result"
          /\ pdfs' = GatherResult(jobs)
          /\ UNCHANGED pdf
       \/ /\ hpc = "polling"
          /\ pc[1] = "done"
          /\ pdf' = pdf_link[1]
          /\ UNCHANGED pdfs
    /\ hpc' = "returned"
    /\ client' = "closed"
    /\ UNCHANGED <<idx, posted, job_req, tasks, jobs, post_req>>
    /\ UNCHANGED cmdVars
    /\ UNCHANGED pollVars

\* a poller's exception reaches the handler: leave both with-blocks (the
\* client is closed) and raise; the other pollers are not cancelled.
HandlerRaise ==
    /\ Running
    /\ AllStarted
    /\ \/ hpc = "gather" /\ GatherState(jobs) = "exception"
       \/ hpc = "polling" /\ pc[1] = "failed"
    /\ hpc' = "raised"
    /\ client' = "closed"
    /\ UNCHANGED <<idx, posted, job_req, tasks, jobs, pdfs, pdf, post_req>>
    /\ UNCHANGED cmdVars
    /\ UNCHANGED pollVars

Next ==
    \/ LoginStart
    \/ \E r \in LoginResponses : LoginRecv(r)
    \/ CmdInvoke
    \/ CmdPrint
    \/ CmdCrash
    \/ HandlerStart
    \/ \E r \in CreateResponses(idx) : CreateRecv(r)
    \/ \E i \in Entries, sent \in SendOutcomes : PollStart(i, sent)
    \/ \E i \in Entries, r \in StatusResponses, sent \in SendOutcomes : PollRecv(i, r, sent)
    \/ \E i \in Entries, sent \in SendOutcomes : PollWake(i, sent)
    \/ HandlerReturn
    \/ HandlerRaise

Spec == Init /\ [][Next]_vars

\* ---------------------------------------------------------- fair scheduling
\* the job of a batch that the service may leave unanswered or never ready
StuckJob == 1

\* the service answers a status request of job i with a ready document
ReadyRecv(i) ==
    \E u \in Urls, sent \in SendOutcomes : PollRecv(i, Resp(200, ReadyBody(u)), sent)

\* The event loop runs every task that is ready to run: a scheduled poller
\* takes its first step and a poller whose sleep is over goes on.  The
\* service eventually answers with a ready document for every job but
\* StuckJob, about which nothing is assumed.
FairSpec ==
    /\ Init
    /\ [][Next]_vars
    /\ \A i \in Entries :
          /\ WF_vars(\E sent \in SendOutcomes : PollStart(i, sent))
          /\ WF_vars(\E sent \in SendOutcomes : PollWake(i, sent))
    /\ \A i \in Entries \ {StuckJob} : SF_vars(ReadyRecv(i))


\* ================================================================ claims
\* The properties below restate what a response contains from the response
\* itself, not through the operators of the model.

\* the body of r is an object whose "document" is an object with "url" = x
HasUrl(r, x) ==
    /\ r.body.t = "dict"
    /\ \E p \in r.body.m :
          /\ p[1] = "document"
          /\ p[2].t = "dict"
          /\ <<"url", x>> \in p[2].m

\* the job_id carried by the creation response of entry i (None if absent)
CreatedJobId(i) ==
    IF \E p \in job_req[i].body.m : p[1] = "job_id"
    THEN (CHOOSE p \in job_req[i].body.m : p[1] = "job_id")[2]
    ELSE PyNone

\* in this step poller i resumes from its awaited get; got'[i] is the outcome
Received(i) == pc[i] = "wait" /\ (pc'[i] # "wait" \/ nGets'[i] > nGets[i])

NoPdfPrinted == \A k \in 1..Len(printed) : printed[k].k # "pdf"

\* C1: a successful handle_post_template_jobs call returns a sequence of
\* length N whose element i is the document URL of the ready response
\* received by the poller of entry i, which polled the job created for
\* entry i, whatever the order in which the pollers finished.
C1_ResultsInSubmissionOrder ==
    (cmd \in BatchCommands /\ hpc = "returned") =>
        /\ Len(pdfs) = N
        /\ \A i \in 1..N :
              /\ HasUrl(got[i], pdfs[i])
              /\ polled[i] = {CreatedJobId(i)}

\* C1 witness: entry 2 resolved before entry 1, result is [url1, url2]
C1_OutOfOrderCompletion ==
    /\ cmd = "add_bulk_job_template"
    /\ hpc = "returned"
    /\ finished = <<2, 1>>
    /\ pdfs = <<Str("url1"), Str("url2")>>

\* C2 (as claimed): whenever a poller receives a 200 response whose body
\* has document.url = X, for any value X, it terminates with exactly X and
\* issues no further status request.
C2_ReadyResponseEndsPolling ==
    [][\A i \in Entries : \A x \in {Str(u) : u \in Urls} \cup {PyNone} :
          (Received(i) /\ got'[i].status_code = 200 /\ HasUrl(got'[i], x))
             => /\ pc'[i] = "done"
                /\ pdf_link'[i] = x
                /\ nGets'[i] = nGets[i]]_vars

\* C3: in a batch, once a status request of any poller has failed with a
\* transport error, the handler never returns a result sequence and the
\* command prints no document URL.
C3_TransportFailureFailsBatch ==
    (cmd \in BatchCommands /\ \E i \in Entries : got[i] = TransportError) =>
        /\ hpc # "returned"
        /\ pdfs = <<>>
        /\ NoPdfPrinted

\* C3 witness: job 1 had resolved, job 2 hit a transport error, the
\* command ended with a failure
C3_FailedAfterSiblingResolved ==
    /\ cmd = "add_bulk_job_template"
    /\ pc[1] = "done"
    /\ got[2] = TransportError
    /\ cpc = "exited"
    /\ exit_code = 1
    /\ NoPdfPrinted

\* the response r leaves the job not ready: no document URL to return
NotReady(r) ==
    /\ r # TransportError
    /\ ~(r.status_code = 200 /\ \E u \in Urls : HasUrl(r, Str(u)))

\* C4 (as claimed): after a response that leaves the job not ready the
\* poller is in its inter-poll sleep, and every status request but the
\* first is issued on waking from that sleep.
C4_WaitBeforeEveryRetry ==
    [][\A i \in Entries :
          /\ (Received(i) /\ NotReady(got'[i])) => pc'[i] = "sleep"
          /\ (nGets'[i] > nGets[i] /\ nGets[i] > 0) => pc[i] = "sleep"]_vars

\* C5 (as claimed): a 200 response whose body is unparseable, not an
\* object, without "document", with a non-object "document" or without
\* "document.url" sends the poller to its retry sleep, never to a failure.
C5_MalformedPayloadRetried ==
    [][\A i \in Entries :
          (Received(i) /\ got'[i].status_code = 200
                       /\ got'[i].body \in UnreadyBodies)
             => pc'[i] = "sleep"]_vars

\* C6 (as claimed): a progress task is marked complete at most once, and
\* it is marked exactly when its poller has returned.
C6_CompletedOnceOnResult ==
    \A i \in Entries :
        /\ completed[i] <= 1
        /\ completed[i] = 1 <=> pc[i] = "done"

\* C7: after a response whose status is not 200, whatever its body, the
\* poller assigns no result, marks nothing complete, does not return and
\* does not sleep: it goes on to the next status request for its job id
\* (which is in flight afterwards, unless the client has been closed and
\* refuses to send it).
C7_NonSuccessStatusIgnored ==
    [][\A i \in Entries :
          (Received(i) /\ got'[i] # TransportError /\ got'[i].status_code # 200)
             => /\ pdf_link'[i] = pdf_link[i]
                /\ completed'[i] = completed[i]
                /\ finished' = finished
                /\ \/ /\ pc'[i] = "wait"
                      /\ nGets'[i] = nGets[i] + 1
                      /\ polled'[i] = {job_id[i]}
                   \/ /\ client # "open"
                      /\ pc'[i] = "failed"]_vars

\* C7 witness: a 404 carrying a ready-looking body was skipped and the
\* next request is in flight
C7_SkippedNonSuccess ==
    \E i \in Entries :
        /\ got[i] = Resp(404, ReadyBody("url1"))
        /\ pc[i] = "wait"
        /\ nGets[i] = 2
        /\ pdf_link[i] = PyNone
        /\ completed[i] = 0

\* every creation request is for a distinct entry, in input order
OnePerEntry == \A k \in 1..Len(posted) : posted[k] = k

\* every status request of poller i names the job id created for entry i
PollsOwnJob == \A i \in Entries : \A v \in polled[i] : v = CreatedJobId(i)

\* C8 (as claimed): when a batch run is over exactly N creation requests
\* have been sent, one per entry, and each poller polled only its own id.
C8_ExactlyNCreationRequests ==
    (cmd \in BatchCommands /\ cpc = "exited") =>
        /\ Len(posted) = N
        /\ OnePerEntry
        /\ PollsOwnJob

\* C8 (amended): at most one creation request per entry, in input order,
\* never re-sent; all N have been sent whenever a poller runs or the call
\* returns, and fewer than N only when the handler raised because the last
\* creation request sent failed or its response could not be decoded;
\* handle_post_job sends exactly one; poller i polls only the job id of
\* the creation response of entry i.
C8_OneCreationPerEntry ==
    /\ Len(posted) <= N
    /\ OnePerEntry
    /\ PollsOwnJob
    /\ (hpc \in {"polling", "gather", "returned"}
          \/ \E i \in Entries : pc[i] \notin {"none", "created"})
         => Len(posted) = N
    /\ (hpc \notin {"init", "creating"} /\ Len(posted) < N)
         => /\ hpc = "raised"
            /\ job_req[Len(posted)].body.t # "dict"
    /\ (cmd \in SingleCommands /\ hpc # "init") => posted = <<1>>

\* C8 witness: a batch of two returned, each poller polled its own job
C8_BatchOfTwoPolled ==
    /\ cmd = "add_bulk_job_template"
    /\ hpc = "returned"
    /\ posted = <<1, 2>>
    /\ polled[1] = {JobIdFor(1)}
    /\ polled[2] = {JobIdFor(2)}

TokenPrinted == \E k \in 1..Len(printed) : printed[k].k = "token"

\* C9: when the login endpoint answers with a status other than 200 the
\* command exits with code 1 and prints no token line; a token line is
\* printed only for a 200 answer.
C9_LoginFailureExitsWithoutToken ==
    cmd = "login" =>
        /\ (token_req # NoResp /\ token_req.status_code # 200)
             => (cpc = "exited" /\ exit_code = 1 /\ ~TokenPrinted)
        /\ TokenPrinted => token_req.status_code = 200

\* C9 witness: a 401 answer ended the command with exit code 1
C9_WrongPassword ==
    /\ cmd = "login"
    /\ token_req.status_code = 401
    /\ cpc = "exited"
    /\ exit_code = 1
    /\ ~TokenPrinted

\* C10: a transport error of a status request ends the poller at once: no
\* further request, no sleep, no progress update, no value returned; and
\* a failed poller never acts again.
C10_TransportErrorLeavesPoller ==
    [][\A i \in Entries :
          /\ (Received(i) /\ got'[i] = TransportError)
               => /\ pc'[i] = "failed"
                  /\ nGets'[i] = nGets[i]
                  /\ completed'[i] = completed[i]
                  /\ pdf_link'[i] = pdf_link[i]
                  /\ finished' = finished
          /\ pc[i] = "failed"
               => /\ pc'[i] = "failed"
                  /\ nGets'[i] = nGets[i]
                  /\ completed'[i] = completed[i]
                  /\ pdf_link'[i] = pdf_link[i]]_vars

\* C10 witness: a poller failed on its second status request
C10_FailedOnSecondRequest ==
    \E i \in Entries :
        /\ got[i] = TransportError
        /\ pc[i] = "failed"
        /\ nGets[i] = 2
        /\ completed[i] = 0
        /\ pdf_link[i] = PyNone


\* poller i left with the error of a get that a closed client refused
RefusedByClosedClient(i) == client # "open" /\ pc'[i] = "failed"

\* C11 (as claimed): there is no cap on the poll loop: after every
\* not-ready response that is not a transport failure the poller is still
\* in its loop (awaiting the next response or in its sleep); a poller
\* returns only on a response that carries a document URL; a batch whose
\* handler returned has no poller that is still polling.
C11_NotReadyKeepsPolling ==
    [][/\ \A i \in Entries :
            /\ (Received(i) /\ NotReady(got'[i]))
                 => (pc'[i] \in {"wait", "sleep"} \/ RefusedByClosedClient(i))
            /\ (pc[i] # "done" /\ pc'[i] = "done") => ~NotReady(got'[i])
       /\ hpc' = "returned"
            => \A i \in 1..N : pc'[i] = "done"]_vars

\* the creation response of entry i is an object without "job_id"
JobIdMissing(r) == r.body.t = "dict" /\ ~\E p \in r.body.m : p[1] = "job_id"

\* C12 (as claimed): a creation response without job_id does not fail the
\* submission: the poller is registered with the id None, names None in
\* its status requests, and after every response that carries no ready
\* document (transport failures apart) it is still in its loop: it
\* neither returns nor raises.
C12_MissingJobIdPollsForever ==
    [][\A i \in Entries :
          /\ (job_req[i] = NoResp /\ JobIdMissing(job_req'[i]))
               => /\ hpc' # "raised"
                  /\ job_id'[i] = PyNone
                  /\ pc'[i] \in {"created", "scheduled"}
          /\ (JobIdMissing(job_req[i]) /\ Received(i) /\ NotReady(got'[i]))
               => /\ polled'[i] = {PyNone}
                  /\ (pc'[i] \in {"wait", "sleep"} \/ RefusedByClosedClient(i))]_vars


\* C13: a job never has more than one status request in flight, a request
\* is in flight only while its poller awaits it, and every status request
\* is issued when no earlier request of that job is unanswered.
C13_OneRequestInFlight ==
    [][\A i \in Entries :
          /\ inflight'[i] <= 1
          /\ inflight'[i] = 1 => pc'[i] = "wait"
          /\ nGets'[i] > nGets[i] => (inflight'[i] = 1 /\ Outstanding(i) = 0)]_vars

\* C13 witness: the second status request of a job is in flight, the
\* first has been answered
C13_SecondRequestInFlight ==
    \E i \in Entries :
        /\ nGets[i] = 2
        /\ inflight[i] = 1
        /\ pc[i] = "wait"
        /\ got[i] # NoResp


\* C15: when the creation request of entry k of a batch fails with a
\* transport error (the handler raised, entry k is the first without a
\* creation response and its request was sent), the call yields no result,
\* nothing is printed, no creation request was sent for an entry after k
\* and no status request was issued for any job of the batch.
C15_CreationFailureAbortsBatch ==
    \A k \in 1..N :
        (/\ cmd \in BatchCommands
         /\ hpc = "raised"
         /\ k <= Len(posted)
         /\ job_req[k] = NoResp
         /\ \A j \in 1..(k - 1) : job_req[j] # NoResp)
          => /\ pdfs = <<>>
             /\ NoPdfPrinted
             /\ posted = [j \in 1..k |-> j]
             /\ \A i \in Entries :
                   nGets[i] = 0 /\ inflight[i] = 0 /\ polled[i] = {}

\* C15 witness: the job of entry 1 was created, the creation request of
\* entry 2 failed, the command ended and the job of entry 1 was never polled
C15_SecondCreationFailed ==
    /\ cmd = "add_bulk_job_template"
    /\ N = 2
    /\ hpc = "raised"
    /\ cpc = "exited"
    /\ posted = <<1, 2>>
    /\ ~JobIdMissing(job_req[1])
    /\ job_req[1] # NoResp
    /\ job_req[2] = NoResp
    /\ nGets[1] = 0

\* C18: creation requests are sent in input order, the request of entry
\* i+1 only after the creation response of entry i has been received, and
\* no status request is issued (no poller has started) before the creation
\* response of the last entry has been received.
C18_CreationPrecedesPolling ==
    /\ OnePerEntry
    /\ \A k \in 1..Len(posted) : \A j \in 1..(k - 1) : job_req[j] # NoResp
    /\ (\E i \in Entries : nGets[i] > 0 \/ pc[i] \notin {"none", "created"})
         => \A k \in 1..N : job_req[k] # NoResp

\* C18 witness: both jobs of a batch of two are created and the first
\* status request is in flight
C18_PollingAfterLastCreation ==
    /\ cmd = "add_bulk_job_template"
    /\ N = 2
    /\ hpc = "gather"
    /\ posted = <<1, 2>>
    /\ job_req[1] # NoResp
    /\ job_req[2] # NoResp
    /\ TotalGets = 1


\* C16 (as claimed): every creation and status request is issued while the
\* client session is open, the session is closed whenever the handler has
\* returned or raised, and once it is closed no poller issues a further
\* status request or marks a progress task complete.
C16_NothingAfterClose ==
    [][/\ Len(posted') > Len(posted) => client' = "open"
       /\ hpc' \in {"returned", "raised"} => client' = "closed"
       /\ \A i \in Entries :
             /\ nGets'[i] > nGets[i] => client = "open"
             /\ client = "closed"
                  => (nGets'[i] = nGets[i] /\ completed'[i] = completed[i])]_vars


\* percent-encoding of one character of a serialised entry: letters and
\* digits are unreserved, every other character is written %XX
PercentEncoded(c) ==
    CASE c = "{"  -> "%7B"
      [] c = "}"  -> "%7D"
      [] c = "\"" -> "%22"
      [] c = ":"  -> "%3A"
      [] c = ","  -> "%2C"
      [] c = " "  -> "%20"
      [] c = "&"  -> "%26"
      [] c = "#"  -> "%23"
      [] OTHER    -> c

UrlEncode(text) == [k \in 1..Len(text) |-> PercentEncoded(text[k])]

\* C17 (as claimed): the creation request sent by post_template_job has
\* input_type "url" and the resource {template_server}/{template}?data=
\* followed by the URL-encoded JSON serialisation of the entry, with the
\* fixed demo endpoint as template_server whatever PAPERO_SERVER is.
C17_TemplateResourceUrlEncoded ==
    (cmd \in BatchCommands /\ Len(posted) > 0)
        => /\ post_req.input_type = "url"
           /\ post_req.resource =
                 <<"https://demo.papero.io/templates", "/">> \o template
                    \o <<"?data=">>
                    \o UrlEncode(JsonDumps(data[posted[Len(posted)]]))


\* C14: in a batch, under fair scheduling, every poller other than the one
\* of the stuck job that has been handed to gather eventually receives a
\* ready response for its own job, marks its progress task complete and
\* returns that document, whether the stuck job's poller is awaiting a
\* response, sleeping or never ready; unless the poller itself fails, the
\* process ends, or the poller sleeps with the request budget of the model
\* used up.
C14_OtherPollersFinish ==
    \A i \in Entries \ {StuckJob} :
        (cmd \in BatchCommands /\ pc[i] \in {"scheduled", "wait", "sleep"})
            ~> \/ /\ pc[i] = "done"
                  /\ completed[i] >= 1
                  /\ got[i].status_code = 200
                  /\ HasUrl(got[i], pdf_link[i])
                  /\ polled[i] = {CreatedJobId(i)}
               \/ pc[i] = "failed"
               \/ cpc # "waiting"
               \/ pc[i] = "sleep" /\ TotalGets >= MaxStatusRequests

\* C14 witness: job 2 of a batch has finished while the poller of the
\* stuck job is still awaiting the answer to its first status request
C14_FinishedBesideStuckJob ==
    /\ cmd = "add_bulk_job_template"
    /\ N >= 2
    /\ pc[StuckJob] = "wait"
    /\ nGets[StuckJob] = 1
    /\ got[StuckJob] = NoResp
    /\ pc[2] = "done"
    /\ completed[2] = 1
    /\ cpc = "waiting"

====
